---- MODULE Spec2Model ----
(***************************************************************************)
(* Sparse distributed memory (SDM) with its chunking and bundle codec.     *)
(*                                                                         *)
(* The memory engine is the class SDM of compression_test.py (the same     *)
(* enter/retrieve pair is in malsdm.py): p hard addresses of n bits, a     *)
(* p x n matrix of signed counters and a Hamming radius.  The codec is     *)
(* run_length_encode_packed / run_length_decode_packed, the signed-byte    *)
(* packing of the counters and the loader that save_loader_file_no_        *)
(* dependencies emits.  Two other memories of the repository are modelled  *)
(* over the same variables: the one of sparse_malicious_memory.py, written *)
(* and read with one vector, and the one of malSDM.py, whose data is one   *)
(* dictionary of checksum -> block per address.                            *)
(*                                                                         *)
(* Vectors are sequences over {0,1}; Python's index j is j+1 here.         *)
(***************************************************************************)
EXTENDS Integers, Sequences, FiniteSets, TLC

VARIABLES
  keys,     \* SDM.keys: the hard addresses, a sequence of p bit vectors
  data,     \* SDM.data: the counter matrix, a sequence of p rows of n integers
  radius,   \* SDM.radius
  old,      \* SDM.data as it was when the last call started
  writes,   \* the (key, pattern) arguments of the enter calls made so far
  ret,      \* the last call: its name, its arguments and what it returned
  stage,    \* where a run of the run-length codec stands
  bits,     \* the argument of run_length_encode_packed
  flat,     \* the argument of run_length_decode_packed
  dec,      \* what run_length_decode_packed did: raised, or the value returned
  bundle,   \* the loader script save_loader_file_no_dependencies wrote
  loaded,   \* the SDM the loader script built from its own keys and data
  tape,     \* the bits the generator yields after random.seed(42), in order
  file_paths, \* main's argument: the files, each with what reading it gives
  done,     \* how many of file_paths main's loop has been through
  files_info, \* main's files_info: file name -> chunk keys and original length
  output,   \* what the loader script reconstructed
  payload,  \* the binary_data argument of chunk_binary_data
  csize,    \* its chunk_size argument
  pieces,   \* the chunks it returned
  joined,   \* the chunks put together again and cut to a length
  streams,  \* the generator's output bits, for each seed
  rng,      \* the state of the module random: the last seed and the bits drawn since
  gen,      \* the last call of an address generator, and what it returned
  first     \* what the first call with each set of arguments returned

sdmVars == <<keys, data, radius, old, writes, ret>>

rleVars == <<stage, bits, flat, dec>>

loaderVars == <<bundle, loaded>>

mainVars == <<tape, file_paths, done, files_info, output>>

chunkVars == <<payload, csize, pieces, joined>>

genVars == <<streams, rng, gen, first>>

vars == <<sdmVars, rleVars, loaderVars, mainVars, chunkVars, genVars>>

-----------------------------------------------------------------------------
(* Bounds of the model.                                                    *)

\* n: the length of every address, key and pattern.
N == 3
\* The largest number of hard addresses p.
MaxP == 2
\* The largest number of enter calls in one run.
MaxWrites == 2
\* The run-length codec is run on every bit sequence of at most MaxShort bits,
MaxShort == 5
\* on every sequence made of at most MaxRuns runs of the lengths RunLens,
MaxRuns == 2
\* and the decoder on every sequence of at most MaxFlat of the bytes FlatBytes.
MaxFlat == 4
\* The counter matrices packed into a bundle have at most MaxMarked counters
\* that are not 0, each one of CounterVals.
MaxMarked == 2
\* main is run on at most MaxFiles files of at most MaxBytes bytes each,
MaxFiles == 2
MaxBytes == 1
\* with a memory of MainP hard addresses.
MainP == 3
\* The largest number of enter calls in a run with keys of other lengths.
MaxDimWrites == 1
\* The same write is repeated until MaxFill writes were made.
MaxFill == 129
\* The generator's output is modelled for StreamLen bits after each seeding,
StreamLen == 4
\* the generators are called at most MaxGenCalls times in a run,
MaxGenCalls == 3
\* for at most MaxVecs vectors of MaxVecLen bits.
MaxVecs == 2
MaxVecLen == 2
\* chunk_binary_data is run on every payload of at most MaxPayload bits and on
\* the first LongLen bits of every three of the bytes SampleBytes,
MaxPayload == 6
LongLen == 20
\* with every chunk size up to MaxChunkSize, and with ByteSize.
MaxChunkSize == 4
ByteSize == 8

-----------------------------------------------------------------------------
(* Vectors.                                                                *)

Bit == {0, 1}

BitVecs(n) == [1..n -> Bit]

Zeros(n) == [j \in 1..n |-> 0]

Min(a, b) == IF a <= b THEN a ELSE b

\* A distance that leaves the last position out.
RECURSIVE HammingShort(_, _, _)
HammingShort(a, b, j) ==
  IF j >= Min(Len(a), Len(b)) THEN 0
  ELSE (IF a[j] # b[j] THEN 1 ELSE 0) + HammingShort(a, b, j + 1)

\* sum(x != y for x, y in zip(a, b)): zip stops at the shorter vector.
RECURSIVE HammingFrom(_, _, _)
HammingFrom(a, b, j) ==
  IF j > Min(Len(a), Len(b)) THEN 0
  ELSE (IF a[j] # b[j] THEN 1 ELSE 0) + HammingFrom(a, b, j + 1)

hamming_distance(a, b) == HammingFrom(a, b, 1)

-----------------------------------------------------------------------------
(* SDM.__init__                                                            *)

\* int(0.451 * n).  0.451 * n is no integer for 0 < n < 1000, so the float
\* product truncates to the same integer as the exact one.
RadiusOf(n) == (451 * n) \div 1000

\* The addresses are draws of the seeded generator: any p vectors of n bits.
\* Hamming distance is unchanged when one vector is XOR-ed into both of its
\* arguments and the keys of the calls range over every vector, so the first
\* address is drawn as the zero vector and the others freely.
AddressSpaces ==
  UNION {{ks \in [1..p -> BitVecs(N)] : ks[1] = Zeros(N)} : p \in 1..MaxP}

\* A memory of a single hard address, at any vector.
SingleAddressSpaces == [1..1 -> BitVecs(N)]

\* Every address table of 1..MaxP vectors: what is written into the loader
\* script depends on the bits of every address, the first one included.
FullAddressSpaces == UNION {[1..p -> BitVecs(N)] : p \in 1..MaxP}

ZeroData(p, n) == [i \in 1..p |-> Zeros(n)]

NoCall == [op |-> "none", key |-> <<>>, pattern |-> <<>>, out |-> <<>>, raised |-> FALSE]

\* No loader script has been written,
NoBundle == [status |-> "none", keys |-> <<>>, data |-> <<>>, radius |-> 0,
             chunk_size |-> 0, files |-> <<>>]

\* and none has been run.
NotLoaded == [status |-> "none", keys |-> <<>>, data |-> <<>>, radius |-> 0]

LoaderIdle ==
  /\ bundle = NoBundle
  /\ loaded = NotLoaded

NoOutput == [status |-> "none", name |-> "", binary_data |-> <<>>, bytes |-> <<>>]

\* main has not been called.
MainIdle ==
  /\ tape = <<>>
  /\ file_paths = <<>>
  /\ done = 0
  /\ files_info = <<>>
  /\ output = NoOutput

NotChunked == [called |-> FALSE, chunks |-> <<>>]

NotJoined == [status |-> "none", original_length |-> 0, binary_data |-> <<>>]

\* chunk_binary_data has not been called.
ChunkIdle ==
  /\ payload = <<>>
  /\ csize = 0
  /\ pieces = NotChunked
  /\ joined = NotJoined

\* The module random as it is imported: nothing drawn yet.
FreshRng == [seed |-> 0, pos |-> 0]

NoGen == [op |-> "none", seed |-> 0, count |-> 0, length |-> 0, out |-> <<>>,
          calls |-> 0, before |-> 0]

\* No address generator has been called.
GenIdle ==
  /\ streams = <<>>
  /\ rng = FreshRng
  /\ gen = NoGen
  /\ first = <<>>

-----------------------------------------------------------------------------
(* SDM.enter                                                               *)

\* A neighbourhood test that leaves out the addresses at exactly the radius.
InRadiusStrict(ks, r, i, key_vector) == hamming_distance(ks[i], key_vector) < r

\* A neighbourhood test that reaches one bit beyond the radius.
InRadiusWide(ks, r, i, key_vector) == hamming_distance(ks[i], key_vector) <= r + 1

\* Whether hard address i is selected by key_vector.
InRadius(ks, r, i, key_vector) == hamming_distance(ks[i], key_vector) <= r

\* An inner loop that counts the 1 bits up and leaves the 0 bits alone.
EnterRowIncOnly(row, data_vector) ==
  [j \in 1..Len(row) |->
     IF j > Len(data_vector) THEN row[j]
     ELSE IF data_vector[j] = 1 THEN row[j] + 1 ELSE row[j]]

\* An inner loop that sets the counter instead of adding to it: the last
\* write of a row replaces the ones before.
EnterRowOverwrite(row, data_vector) ==
  [j \in 1..Len(row) |->
     IF j > Len(data_vector) THEN row[j]
     ELSE IF data_vector[j] = 1 THEN 1 ELSE -1]

\* The inner loop: for j in range(len(data_vector)), +1 on a 1 bit, -1 otherwise.
EnterRow(row, data_vector) ==
  [j \in 1..Len(row) |->
     IF j > Len(data_vector) THEN row[j]
     ELSE IF data_vector[j] = 1 THEN row[j] + 1 ELSE row[j] - 1]

\* An outer loop without the distance test: every row is updated.
RECURSIVE EnterFromAll(_, _, _, _, _, _)
EnterFromAll(ks, d, r, key_vector, data_vector, i) ==
  IF i > Len(ks) THEN d
  ELSE EnterFromAll(ks, [d EXCEPT ![i] = EnterRow(d[i], data_vector)],
                    r, key_vector, data_vector, i + 1)

\* The outer loop: for i in range(len(self.keys)).
RECURSIVE EnterFrom(_, _, _, _, _, _)
EnterFrom(ks, d, r, key_vector, data_vector, i) ==
  IF i > Len(ks) THEN d
  ELSE EnterFrom(ks,
                 IF InRadius(ks, r, i, key_vector)
                   THEN [d EXCEPT ![i] = EnterRow(d[i], data_vector)]
                   ELSE d,
                 r, key_vector, data_vector, i + 1)

enter(ks, d, r, key_vector, data_vector) ==
  EnterFrom(ks, d, r, key_vector, data_vector, 1)

-----------------------------------------------------------------------------
(* SDM.lookup                                                              *)

\* retrieved_data[j] += self.data[i][j] for j in range(len(key_vector)).
AddRow(acc, row) == [j \in 1..Len(acc) |-> acc[j] + row[j]]

\* A scan that sums every row, whatever its distance from the key.
RECURSIVE LookupFromAll(_, _, _, _, _, _)
LookupFromAll(ks, d, r, key_vector, acc, i) ==
  IF i > Len(ks) THEN acc
  ELSE LookupFromAll(ks, d, r, key_vector, AddRow(acc, d[i]), i + 1)

RECURSIVE LookupFrom(_, _, _, _, _, _)
LookupFrom(ks, d, r, key_vector, acc, i) ==
  IF i > Len(ks) THEN acc
  ELSE LookupFrom(ks, d, r, key_vector,
                  IF InRadius(ks, r, i, key_vector) THEN AddRow(acc, d[i]) ELSE acc,
                  i + 1)

\* The cutoff of sdmTest.py: a zero sum gives 1.
ThresholdGe(acc) == [j \in 1..Len(acc) |-> IF acc[j] >= 0 THEN 1 ELSE 0]

\* [1 if x > 0 else 0 for x in retrieved_data]
Threshold(acc) == [j \in 1..Len(acc) |-> IF acc[j] > 0 THEN 1 ELSE 0]

lookup(ks, d, r, key_vector) ==
  Threshold(LookupFrom(ks, d, r, key_vector, Zeros(Len(key_vector)), 1))

\* self.data[i][j] with j in range(len(key_vector)) is an IndexError when a
\* row within radius is shorter than the key.
LookupRaises(ks, d, r, key_vector) ==
  \E i \in 1..Len(ks) : InRadius(ks, r, i, key_vector) /\ Len(key_vector) > Len(d[i])

-----------------------------------------------------------------------------
(* run_length_encode_packed                                                *)

\* The largest count of one (count, value) pair.
MaxCount == 255

\* The loop's variables before the first iteration of "for val in bits[1:]".
RleStart(bs) == [encoded |-> <<>>, current_val |-> bs[1], count |-> 1]

\* A loop body that restarts the count at 0 after emitting a full pair.
RleStepDropsBit(st, val) ==
  IF val = st.current_val
    THEN IF st.count < MaxCount
           THEN [st EXCEPT !.count = @ + 1]
           ELSE [st EXCEPT !.encoded = @ \o <<st.count, st.current_val>>, !.count = 0]
    ELSE [encoded |-> st.encoded \o <<st.count, st.current_val>>,
          current_val |-> val, count |-> 1]

\* A loop body that lets the count reach MaxCount + 1 before it emits.
RleStepLateCap(st, val) ==
  IF val = st.current_val
    THEN IF st.count <= MaxCount
           THEN [st EXCEPT !.count = @ + 1]
           ELSE [st EXCEPT !.encoded = @ \o <<st.count, st.current_val>>, !.count = 1]
    ELSE [encoded |-> st.encoded \o <<st.count, st.current_val>>,
          current_val |-> val, count |-> 1]

\* One iteration of the loop.
RleStep(st, val) ==
  IF val = st.current_val
    THEN IF st.count < MaxCount
           THEN [st EXCEPT !.count = @ + 1]
           ELSE [st EXCEPT !.encoded = @ \o <<st.count, st.current_val>>, !.count = 1]
    ELSE [encoded |-> st.encoded \o <<st.count, st.current_val>>,
          current_val |-> val, count |-> 1]

\* The iterations over bs[lo..hi], in order.  The range is halved, and the
\* first half's result looked at before the second half starts, so that the
\* evaluation of a long sequence nests only logarithmically deep.
RECURSIVE RleLoop(_, _, _, _)
RleLoop(bs, lo, hi, st) ==
  IF lo > hi THEN st
  ELSE IF lo = hi THEN RleStep(st, bs[lo])
  ELSE LET mid == (lo + hi) \div 2
           half == RleLoop(bs, lo, mid, st)
       IN IF half.count >= 0 THEN RleLoop(bs, mid + 1, hi, half) ELSE half

run_length_encode_packed(bs) ==
  IF bs = <<>> THEN <<>>
  ELSE LET st == RleLoop(bs, 2, Len(bs), RleStart(bs))
       IN st.encoded \o <<st.count, st.current_val>>

-----------------------------------------------------------------------------
(* run_length_decode_packed                                                *)

\* [val] * count
Repeat(val, count) == [k \in 1..count |-> val]

\* A loop body that expands whatever value it is given.
DecodePairAnyValue(st, count, val) ==
  IF st.raised THEN st
  ELSE [st EXCEPT !.decoded = @ \o Repeat(val, count)]

\* One iteration: a value outside 0..1 raises, and ends the loop.
DecodePair(st, count, val) ==
  IF st.raised THEN st
  ELSE IF ~(0 <= val /\ val <= 1) THEN [st EXCEPT !.raised = TRUE]
  ELSE [st EXCEPT !.decoded = @ \o Repeat(val, count)]

\* for i in range(0, len(encoded), 2)
RECURSIVE DecodeFrom(_, _, _)
DecodeFrom(encoded, i, st) ==
  IF i > Len(encoded) THEN st
  ELSE DecodeFrom(encoded, i + 2, DecodePair(st, encoded[i], encoded[i + 1]))

\* What a raising call leaves its caller with: no value.
Raised == [raised |-> TRUE, value |-> <<>>]

run_length_decode_packed(encoded) ==
  IF Len(encoded) % 2 # 0 THEN Raised
  ELSE LET st == DecodeFrom(encoded, 1, [decoded |-> <<>>, raised |-> FALSE])
       IN IF st.raised THEN Raised ELSE [raised |-> FALSE, value |-> st.decoded]

-----------------------------------------------------------------------------
(* The run-length codec as a state machine: a bit sequence is encoded and  *)
(* the result decoded, or a byte sequence is decoded as it is.             *)

NoResult == [raised |-> FALSE, value |-> <<>>]

RleIdle ==
  /\ stage = "idle"
  /\ bits = <<>>
  /\ flat = <<>>
  /\ dec = NoResult

SeqsUpTo(S, n) == UNION {[1..k -> S] : k \in 0..n}

\* The run lengths around the cap: below it, at it, above it, and at and
\* above twice the cap.
RunLens == {1, 2, 3, MaxCount, MaxCount + 1, 300, 2 * MaxCount}

\* The bits of a sequence of runs, each a pair <<length, value>>.
RECURSIVE Expand(_)
Expand(runs) ==
  IF runs = <<>> THEN <<>>
  ELSE Repeat(runs[1][2], runs[1][1]) \o Expand(Tail(runs))

BitInputs ==
  SeqsUpTo(Bit, MaxShort)
    \cup {Expand(runs) : runs \in SeqsUpTo(RunLens \X Bit, MaxRuns)}

\* Bytes as a loaded bundle may hold them: valid values, and invalid ones.
FlatBytes == {0, 1, 2, 3, MaxCount}

FlatInputs == SeqsUpTo(FlatBytes, MaxFlat)

SdmUnused ==
  /\ keys = <<>>
  /\ data = <<>>
  /\ radius = 0
  /\ old = <<>>
  /\ writes = <<>>
  /\ ret = NoCall

InitRle ==
  /\ SdmUnused
  /\ LoaderIdle
  /\ MainIdle
  /\ ChunkIdle
  /\ GenIdle
  /\ dec = NoResult
  /\ \/ stage = "bits" /\ bits \in BitInputs /\ flat = <<>>
     \/ stage = "raw" /\ bits = <<>> /\ flat \in FlatInputs

RleEncode ==
  /\ stage = "bits"
  /\ flat' = run_length_encode_packed(bits)
  /\ stage' = "encoded"
  /\ UNCHANGED <<bits, dec, sdmVars, loaderVars, mainVars, chunkVars, genVars>>

RleDecode ==
  /\ stage \in {"encoded", "raw"}
  /\ dec' = run_length_decode_packed(flat)
  /\ stage' = IF stage = "encoded" THEN "roundtrip" ELSE "decoded"
  /\ UNCHANGED <<bits, flat, sdmVars, loaderVars, mainVars, chunkVars, genVars>>

NextRle == RleEncode \/ RleDecode

SpecRle == InitRle /\ [][NextRle]_vars

-----------------------------------------------------------------------------
(* base64.b64encode / base64.b64decode.  A character of the base64         *)
(* alphabet is written as its 6-bit value, and the padding '=' as 64.      *)

B64Pad == 64

\* The power b^e.
RECURSIVE Pow(_, _)
Pow(b, e) == IF e = 0 THEN 1 ELSE b * Pow(b, e - 1)

\* Three bytes make four characters; a last group of one or two bytes is
\* filled with zero bits and closed with padding.
b64encode(bytes) ==
  LET n == Len(bytes)
      groups == (n + 2) \div 3
      ByteAt(i) == IF i <= n THEN bytes[i] ELSE 0
      Word(g) == ByteAt(3 * g - 2) * 65536 + ByteAt(3 * g - 1) * 256 + ByteAt(3 * g)
  IN [k \in 1..(4 * groups) |->
        LET g == (k + 3) \div 4
            pos == (k - 1) % 4
        IN IF pos >= 2 /\ 3 * g - 3 + pos > n THEN B64Pad
           ELSE (Word(g) \div Pow(64, 3 - pos)) % 64]

b64decode(text) ==
  LET groups == Len(text) \div 4
      pads == Cardinality({k \in 1..Len(text) : text[k] = B64Pad})
      Sextet(k) == IF text[k] = B64Pad THEN 0 ELSE text[k]
      Word(g) == Sextet(4 * g - 3) * 262144 + Sextet(4 * g - 2) * 4096
                   + Sextet(4 * g - 1) * 64 + Sextet(4 * g)
  IN [m \in 1..(3 * groups - pads) |->
        LET g == (m + 2) \div 3
            i == (m - 1) % 3
        IN (Word(g) \div Pow(256, 2 - i)) % 256]

-----------------------------------------------------------------------------
(* save_loader_file_no_dependencies: the keys and the counters of the      *)
(* loader script.                                                          *)

\* keys_flat: the run-length pairs of every key, one key after the other.
RECURSIVE KeysFlat(_)
KeysFlat(ks) ==
  IF ks = <<>> THEN <<>>
  ELSE run_length_encode_packed(Head(ks)) \o KeysFlat(Tail(ks))

\* The rows of a matrix, one after the other.
RECURSIVE Flatten(_)
Flatten(d) == IF d = <<>> THEN <<>> ELSE Head(d) \o Flatten(Tail(d))

\* A packing that adds 128 to every vote, the excess-128 code.
PackVoteExcess(val) == val + 128

\* One vote as an unsigned byte: val + 256 when negative.
PackVote(val) == IF val < 0 THEN val + 256 ELSE val

\* bytes(...) takes integers of 0..255 only.
AllBytes(f) == \A k \in 1..Len(f) : 0 <= f[k] /\ f[k] <= 255

\* A range check that lets 128 through.
VoteInRangeWide(val) == ~(val < -128 \/ val > 128)

\* The vote counts the loader script can hold.
VoteInRange(val) == ~(val < -128 \/ val > 127)

\* The call raised a ValueError: no script that can run was written.
BundleRaised == [NoBundle EXCEPT !.status = "raised"]

save_loader_file_no_dependencies(ks, d, r, info, chunk_size) ==
  LET keys_flat == KeysFlat(ks)
      votes == Flatten(d)
      flat_data == [k \in 1..Len(votes) |-> PackVote(votes[k])]
  IN IF ~AllBytes(keys_flat) THEN BundleRaised
     ELSE IF \E k \in 1..Len(votes) : ~VoteInRange(votes[k]) THEN BundleRaised
     ELSE [status |-> "written",
           keys |-> b64encode(keys_flat),
           data |-> b64encode(flat_data),
           radius |-> r,
           chunk_size |-> chunk_size,
           files |-> info]

-----------------------------------------------------------------------------
(* The loader script: load_keys, load_data and its SDM.                    *)

\* [s[i:i+size] for i in range(0, len(s), size)]
Split(s, size) ==
  [g \in 1..((Len(s) + size - 1) \div size) |->
     SubSeq(s, (g - 1) * size + 1, Min(g * size, Len(s)))]

\* A load_keys that returns the decoded bits as one vector, not split.
load_keys_unsplit(encoded_keys, chunk_size) ==
  LET decoded_bits == run_length_decode_packed(b64decode(encoded_keys))
  IN IF decoded_bits.raised THEN Raised
     ELSE [raised |-> FALSE, value |-> <<decoded_bits.value>>]

load_keys(encoded_keys, chunk_size) ==
  LET decoded_bits == run_length_decode_packed(b64decode(encoded_keys))
  IN IF decoded_bits.raised THEN Raised
     ELSE [raised |-> FALSE, value |-> Split(decoded_bits.value, chunk_size)]

\* A decoding that takes every byte as it is, without its sign.
UnpackVoteUnsigned(byte) == byte

\* byte - 256 if byte > 127 else byte
UnpackVote(byte) == IF byte > 127 THEN byte - 256 ELSE byte

load_data(encoded_data, chunk_size) ==
  LET data_list == b64decode(encoded_data)
      decoded_data == [k \in 1..Len(data_list) |-> UnpackVote(data_list[k])]
  IN Split(decoded_data, chunk_size)

\* The first statements of the script's main block.
LoaderSdm(b) ==
  LET sdm_keys == load_keys(b.keys, b.chunk_size)
  IN IF sdm_keys.raised THEN [NotLoaded EXCEPT !.status = "raised"]
     ELSE [status |-> "loaded",
           keys |-> sdm_keys.value,
           data |-> load_data(b.data, b.chunk_size),
           radius |-> b.radius]

-----------------------------------------------------------------------------
(* Saving a memory and loading it back, as a state machine.                *)

\* Vote counts at and beyond both ends of a signed byte, and next to zero.
CounterVals == {-129, -128, -1, 1, 127, 128}

Cells(p, n) == (1..p) \X (1..n)

\* The p x n matrices with at most MaxMarked counters that are not 0.
Matrices(p, n) ==
  LET marks == UNION {[S -> CounterVals] :
                        S \in {T \in SUBSET Cells(p, n) : Cardinality(T) <= MaxMarked}}
  IN {[i \in 1..p |-> [j \in 1..n |->
         IF <<i, j>> \in DOMAIN f THEN f[<<i, j>>] ELSE 0]] : f \in marks}

InitPack ==
  /\ keys \in FullAddressSpaces
  /\ data \in Matrices(Len(keys), N)
  /\ radius = RadiusOf(N)
  /\ old = data
  /\ writes = <<>>
  /\ ret = NoCall
  /\ RleIdle
  /\ LoaderIdle
  /\ MainIdle
  /\ ChunkIdle
  /\ GenIdle

\* save_loader_file_no_dependencies(sdm, files_info, chunk_size, output_file),
\* with the chunk size main passes: the length of the vectors.
SaveLoader ==
  /\ bundle.status = "none"
  /\ bundle' = save_loader_file_no_dependencies(keys, data, radius, files_info, N)
  /\ UNCHANGED <<loaded, sdmVars, rleVars, mainVars, chunkVars, genVars>>

\* Running the script up to the construction of its SDM.
RunLoader ==
  /\ bundle.status = "written"
  /\ loaded.status = "none"
  /\ loaded' = LoaderSdm(bundle)
  /\ UNCHANGED <<bundle, sdmVars, rleVars, mainVars, chunkVars, genVars>>

NextPack == SaveLoader \/ RunLoader

SpecPack == InitPack /\ [][NextPack]_vars

-----------------------------------------------------------------------------
(* The helpers of main: file_to_binary, chunk_binary_data,                 *)
(* generate_key_vectors.                                                   *)

\* [(byte >> i) & 1 for i in range(7, -1, -1)]
ByteBits(byte) == [i \in 1..8 |-> (byte \div Pow(2, 8 - i)) % 2]

file_to_binary(byte_data) ==
  Flatten([k \in 1..Len(byte_data) |-> ByteBits(byte_data[k])])

\* A last chunk with its padding in front of the bits instead of behind them.
LastChunkPadLeft(binary_data, chunk_size) ==
  LET remainder == Len(binary_data) % chunk_size
  IN Zeros(chunk_size - remainder)
       \o SubSeq(binary_data, Len(binary_data) - remainder + 1, Len(binary_data))

\* A last chunk made of the first bits of the data instead of the last ones.
LastChunkFromFront(binary_data, chunk_size) ==
  LET remainder == Len(binary_data) % chunk_size
  IN SubSeq(binary_data, 1, remainder) \o Zeros(chunk_size - remainder)

\* binary_data[-remainder:] + [0] * (chunk_size - remainder)
LastChunk(binary_data, chunk_size) ==
  LET remainder == Len(binary_data) % chunk_size
  IN SubSeq(binary_data, Len(binary_data) - remainder + 1, Len(binary_data))
       \o Zeros(chunk_size - remainder)

chunk_binary_data(binary_data, chunk_size) ==
  LET whole == [i \in 1..(Len(binary_data) \div chunk_size) |->
                  SubSeq(binary_data, (i - 1) * chunk_size + 1, i * chunk_size)]
  IN IF Len(binary_data) % chunk_size > 0
       THEN Append(whole, LastChunk(binary_data, chunk_size))
       ELSE whole

\* random.seed(seed) rewinds the generator: the vectors are the first
\* num_keys * n bits of its output, n at a time.  SDM.__init__ and
\* generate_key_vectors seed it alike, with 42.
\* A generate_key_vectors that starts one vector further into the stream
\* (and goes round when the modelled stream ends).
generate_key_vectors_shifted(t, num_keys, n) ==
  [k \in 1..num_keys |-> [j \in 1..n |-> t[((k * n + j - 1) % Len(t)) + 1]]]

generate_key_vectors(t, num_keys, n) ==
  [k \in 1..num_keys |-> SubSeq(t, (k - 1) * n + 1, k * n)]

\* SDM.__init__: random.seed(seed), then p vectors of n bits drawn one bit
\* after the other, from the start of the seed's stream.
SdmKeys(t, p, n) == [i \in 1..p |-> SubSeq(t, (i - 1) * n + 1, i * n)]

-----------------------------------------------------------------------------
(* main: the body of its loop over file_paths.                             *)

\* for key, chunk in zip(chunk_keys, chunks): sdm.enter(key, chunk)
RECURSIVE EnterChunks(_, _, _, _, _, _)
EnterChunks(ks, d, r, chunk_keys, chunks, k) ==
  IF k > Min(Len(chunk_keys), Len(chunks)) THEN d
  ELSE EnterChunks(ks, enter(ks, d, r, chunk_keys[k], chunks[k]), r,
                   chunk_keys, chunks, k + 1)

\* The run-length pairs of a key as base64 text.
EncodeChunkKey(key) == b64encode(run_length_encode_packed(key))

\* files_info[file_name] = {...}
PutFile(info, file_name, entry) ==
  [f \in DOMAIN info \cup {file_name} |-> IF f = file_name THEN entry ELSE info[f]]

-----------------------------------------------------------------------------
(* The loader script: SDM.lookup, reconstruct_file, binary_to_file.        *)

\* for j, val in enumerate(self.data[i]): retrieved_data[j] += val
LoaderAddRow(acc, row) ==
  [j \in 1..Len(acc) |-> IF j <= Len(row) THEN acc[j] + row[j] ELSE acc[j]]

RECURSIVE LoaderLookupFrom(_, _, _, _, _, _)
LoaderLookupFrom(ks, d, r, key_vector, acc, i) ==
  IF i > Len(ks) THEN acc
  ELSE LoaderLookupFrom(ks, d, r, key_vector,
                        IF InRadius(ks, r, i, key_vector)
                          THEN LoaderAddRow(acc, d[i]) ELSE acc,
                        i + 1)

loader_lookup(ks, d, r, key_vector) ==
  Threshold(LoaderLookupFrom(ks, d, r, key_vector, Zeros(Len(key_vector)), 1))

\* The loop of reconstruct_file over the encoded chunk keys.
RECURSIVE ReadChunks(_, _, _, _)
ReadChunks(sdm, chunk_keys, k, acc) ==
  IF acc.raised \/ k > Len(chunk_keys) THEN acc
  ELSE LET key_vector == run_length_decode_packed(b64decode(chunk_keys[k]))
       IN ReadChunks(sdm, chunk_keys, k + 1,
            IF key_vector.raised THEN Raised
            ELSE [acc EXCEPT !.value =
                    @ \o loader_lookup(sdm.keys, sdm.data, sdm.radius, key_vector.value)])

\* A trim that keeps the padding of the last chunk.
TakeAll(s, n) == s

\* binary_data[:original_length]
Take(s, n) == SubSeq(s, 1, Min(n, Len(s)))

\* byte = (byte << 1) | bit over the bits of one group of at most 8.
RECURSIVE BitsValue(_)
BitsValue(group) ==
  IF group = <<>> THEN 0
  ELSE 2 * BitsValue(SubSeq(group, 1, Len(group) - 1)) + group[Len(group)]

binary_to_file(binary_array) ==
  LET groups == Split(binary_array, 8)
  IN [g \in 1..Len(groups) |-> BitsValue(groups[g])]

reconstruct_file(sdm, file_name, chunk_keys, original_length) ==
  LET read == ReadChunks(sdm, chunk_keys, 1, [raised |-> FALSE, value |-> <<>>])
  IN IF read.raised THEN [NoOutput EXCEPT !.status = "raised", !.name = file_name]
     ELSE LET binary_data == Take(read.value, original_length)
          IN [status |-> "written", name |-> file_name,
              binary_data |-> binary_data, bytes |-> binary_to_file(binary_data)]

-----------------------------------------------------------------------------
(* main and the loader script as a state machine.                          *)

Names == {"a", "b"}

\* The bytes of the files: all zeros, all ones, 10110001 and 01001110.
SampleBytes == {0, 255, 177, 78}

\* A file of the list: its name, whether it can be read, and its bytes.
Files ==
  {f \in [name : Names, found : BOOLEAN, content : SeqsUpTo(SampleBytes, MaxBytes)] :
     ~f.found => f.content = <<>>}

FileLists == UNION {[1..k -> Files] : k \in 1..MaxFiles}

\* The largest number of chunks of one file.
MaxChunks == (8 * MaxBytes + N - 1) \div N

\* The generator's output after random.seed(42): any bits.  As for
\* AddressSpaces, the first vector is drawn as the zero vector.
Tapes ==
  LET rows == IF MainP >= MaxChunks THEN MainP ELSE MaxChunks
  IN {t \in [1..(rows * N) -> Bit] : \A j \in 1..N : t[j] = 0}

\* sdm = SDM(p, chunk_size); files_info = {}
InitMain ==
  /\ tape \in Tapes
  /\ keys = SdmKeys(tape, MainP, N)
  /\ data = ZeroData(MainP, N)
  /\ radius = RadiusOf(N)
  /\ old = data
  /\ writes = <<>>
  /\ ret = NoCall
  /\ RleIdle
  /\ LoaderIdle
  /\ file_paths \in FileLists
  /\ done = 0
  /\ files_info = <<>>
  /\ output = NoOutput
  /\ ChunkIdle
  /\ GenIdle

\* A loop that a file that cannot be read ends: the exception leaves it.
IngestStopsAtFailure ==
  /\ done < Len(file_paths)
  /\ LET file == file_paths[done + 1]
         binary_data == file_to_binary(file.content)
         chunks == chunk_binary_data(binary_data, N)
         chunk_keys == generate_key_vectors(tape, Len(chunks), N)
     IN IF ~file.found
          THEN /\ done' = Len(file_paths)
               /\ UNCHANGED <<data, old, writes, files_info>>
          ELSE /\ done' = done + 1
               /\ old' = data
               /\ data' = EnterChunks(keys, data, radius, chunk_keys, chunks, 1)
               /\ writes' = writes \o [k \in 1..Len(chunks) |->
                                          [key |-> chunk_keys[k], pattern |-> chunks[k]]]
               /\ files_info' = PutFile(files_info, file.name,
                    [chunk_keys |-> [k \in 1..Len(chunk_keys) |-> EncodeChunkKey(chunk_keys[k])],
                     original_length |-> Len(binary_data)])
  /\ UNCHANGED <<keys, radius, ret, tape, file_paths, output, rleVars, loaderVars,
               chunkVars, genVars>>

\* One pass of the loop: a file that cannot be read is skipped.
Ingest ==
  /\ done < Len(file_paths)
  /\ done' = done + 1
  /\ LET file == file_paths[done + 1]
         binary_data == file_to_binary(file.content)
         chunks == chunk_binary_data(binary_data, N)
         chunk_keys == generate_key_vectors(tape, Len(chunks), N)
     IN IF ~file.found
          THEN UNCHANGED <<data, old, writes, files_info>>
          ELSE /\ old' = data
               /\ data' = EnterChunks(keys, data, radius, chunk_keys, chunks, 1)
               /\ writes' = writes \o [k \in 1..Len(chunks) |->
                                          [key |-> chunk_keys[k], pattern |-> chunks[k]]]
               /\ files_info' = PutFile(files_info, file.name,
                    [chunk_keys |-> [k \in 1..Len(chunk_keys) |-> EncodeChunkKey(chunk_keys[k])],
                     original_length |-> Len(binary_data)])
  /\ UNCHANGED <<keys, radius, ret, tape, file_paths, output, rleVars, loaderVars,
               chunkVars, genVars>>

\* After the loop: the script is written unless no file was processed.
MainSave ==
  /\ done = Len(file_paths)
  /\ files_info # <<>>
  /\ SaveLoader

\* The script's main block, for the file the user selects.
Reconstruct(selected_file) ==
  /\ loaded.status = "loaded"
  /\ output.status = "none"
  /\ output' = reconstruct_file(loaded, selected_file,
                                bundle.files[selected_file].chunk_keys,
                                bundle.files[selected_file].original_length)
  /\ UNCHANGED <<tape, file_paths, done, files_info, sdmVars, rleVars, loaderVars,
               chunkVars, genVars>>

NextMain ==
  \/ Ingest
  \/ MainSave
  \/ RunLoader
  \/ \E f \in DOMAIN bundle.files : Reconstruct(f)

SpecMain == InitMain /\ [][NextMain]_vars

-----------------------------------------------------------------------------
(* Splitting a payload into chunks and putting the chunks together again,  *)
(* as a state machine.                                                     *)

\* reconstruct_file with every read returning the chunk that was written:
\* binary_data.extend(...) for each chunk, then binary_data[:original_length].
join(chs, original_length) ==
  [status |-> "written", original_length |-> original_length,
   binary_data |-> Take(Flatten(chs), original_length)]

\* The first LongLen bits of three bytes.
LongPayloads ==
  {Take(file_to_binary(bs), LongLen) : bs \in [1..((LongLen + 7) \div 8) -> SampleBytes]}

ChunkPayloads == SeqsUpTo(Bit, MaxPayload) \cup LongPayloads

ChunkSizes == (1..MaxChunkSize) \cup {ByteSize}

InitChunk ==
  /\ SdmUnused
  /\ RleIdle
  /\ LoaderIdle
  /\ MainIdle
  /\ GenIdle
  /\ payload \in ChunkPayloads
  /\ csize \in ChunkSizes
  /\ pieces = NotChunked
  /\ joined = NotJoined

\* chunks = chunk_binary_data(binary_data, chunk_size)
Chunk ==
  /\ ~pieces.called
  /\ pieces' = [called |-> TRUE, chunks |-> chunk_binary_data(payload, csize)]
  /\ UNCHANGED <<payload, csize, joined, sdmVars, rleVars, loaderVars, mainVars, genVars>>

\* The chunks read back and cut to original_length, whatever length is recorded.
Join(original_length) ==
  /\ pieces.called
  /\ joined.status = "none"
  /\ joined' = join(pieces.chunks, original_length)
  /\ UNCHANGED <<payload, csize, pieces, sdmVars, rleVars, loaderVars, mainVars, genVars>>

NextChunk ==
  \/ Chunk
  \/ \E original_length \in 0..(Len(Flatten(pieces.chunks)) + 1) : Join(original_length)

SpecChunk == InitChunk /\ [][NextChunk]_vars

-----------------------------------------------------------------------------
(* The address generators as a state machine over the state of the module  *)
(* random: SDM.__init__ and generate_key_vectors of compression_test.py,   *)
(* and SDM._generate_deterministic_address of malsdm.py.                   *)

\* A generator that goes on from where the module stands: no random.seed.
ReseedSkipped(seed) == rng

\* random.seed(seed): the module restarts the stream of that seed.
Reseed(seed) == [seed |-> seed, pos |-> 0]

\* The next bits of the stream, read round after StreamLen of them.
RandBit(st, r, k) == st[r.seed][((r.pos + k - 1) % StreamLen) + 1]

\* [[random.randint(0, 1) for _ in range(n)] for _ in range(count)]
RandVectors(st, r, count, n) ==
  [v \in 1..count |-> [j \in 1..n |-> RandBit(st, r, (v - 1) * n + j)]]

\* The module after count more draws.
Advance(r, count) == [r EXCEPT !.pos = @ + count]

\* malsdm.py: random.seed(index), then pattern_length draws.
generate_deterministic_address(st, index, pattern_length) ==
  RandVectors(st, Reseed(index), 1, pattern_length)[1]

\* The seeds the generators are called with: the indices of the addresses,
\* which SDM.__init__ and generate_key_vectors are given as their seed too.
GenSeeds == 0..(MaxVecs - 1)

\* f with val recorded under key, unless key has a record.
Remember(f, key, val) ==
  IF key \in DOMAIN f THEN f
  ELSE [k \in DOMAIN f \cup {key} |-> IF k = key THEN val ELSE f[k]]

RECURSIVE RememberAddresses(_, _, _, _)
RememberAddresses(f, addresses, n, i) ==
  IF i > Len(addresses) THEN f
  ELSE RememberAddresses(Remember(f, <<"index", i - 1, n>>, addresses[i]),
                         addresses, n, i + 1)

InitGen ==
  /\ SdmUnused
  /\ RleIdle
  /\ LoaderIdle
  /\ MainIdle
  /\ ChunkIdle
  /\ streams \in [GenSeeds -> [1..StreamLen -> Bit]]
  /\ rng = FreshRng
  /\ gen = NoGen
  /\ first = <<>>

\* A call of a generator that seeds the module once: op is SDM.__init__
\* (self.keys) or generate_key_vectors.
Seeded(op, count, n, seed) ==
  /\ gen.calls < MaxGenCalls
  /\ LET r == Reseed(seed)
         out == RandVectors(streams, r, count, n)
     IN /\ rng' = Advance(r, count * n)
        /\ gen' = [op |-> op, seed |-> seed, count |-> count, length |-> n, out |-> out,
                   calls |-> gen.calls + 1, before |-> rng.pos]
        /\ first' = Remember(first, <<"seeded", seed, count, n>>, out)
  /\ UNCHANGED <<streams, sdmVars, rleVars, loaderVars, mainVars, chunkVars>>

\* malsdm.py, SDM.__init__: self.addresses, address i from the seed i.
Addresses(p, pattern_length) ==
  /\ gen.calls < MaxGenCalls
  /\ LET out == [i \in 1..p |->
                   generate_deterministic_address(streams, i - 1, pattern_length)]
     IN /\ rng' = Advance(Reseed(p - 1), pattern_length)
        /\ gen' = [op |-> "addresses", seed |-> 0, count |-> p, length |-> pattern_length,
                   out |-> out, calls |-> gen.calls + 1, before |-> rng.pos]
        /\ first' = RememberAddresses(first, out, pattern_length, 1)
  /\ UNCHANGED <<streams, sdmVars, rleVars, loaderVars, mainVars, chunkVars>>

\* random.randint(0, 1) called by any other code.
Draw ==
  /\ gen.calls < MaxGenCalls
  /\ rng.pos < StreamLen
  /\ rng' = Advance(rng, 1)
  /\ UNCHANGED <<streams, gen, first, sdmVars, rleVars, loaderVars, mainVars, chunkVars>>

NextGen ==
  \/ \E op \in {"SDM.__init__", "generate_key_vectors"}, count \in 1..MaxVecs,
        seed \in GenSeeds : Seeded(op, count, MaxVecLen, seed)
  \/ \E p \in 1..MaxVecs : Addresses(p, MaxVecLen)
  \/ Draw

SpecGen == InitGen /\ [][NextGen]_vars

-----------------------------------------------------------------------------
(* The memory engine as a state machine.                                   *)

\* SDM(p, N): the constructor's radius.
Init ==
  /\ keys \in AddressSpaces
  /\ data = ZeroData(Len(keys), N)
  /\ radius = RadiusOf(N)
  /\ old = data
  /\ writes = <<>>
  /\ ret = NoCall
  /\ RleIdle
  /\ LoaderIdle
  /\ MainIdle
  /\ ChunkIdle
  /\ GenIdle

\* SDM(1, N) with sdm.radius = N: every key is within radius of the address.
InitCover ==
  /\ keys \in SingleAddressSpaces
  /\ data = ZeroData(Len(keys), N)
  /\ radius = N
  /\ old = data
  /\ writes = <<>>
  /\ ret = NoCall
  /\ RleIdle
  /\ LoaderIdle
  /\ MainIdle
  /\ ChunkIdle
  /\ GenIdle

Enter(key_vector, data_vector) ==
  /\ old' = data
  /\ data' = enter(keys, data, radius, key_vector, data_vector)
  /\ writes' = Append(writes, [key |-> key_vector, pattern |-> data_vector])
  /\ ret' = [op |-> "enter", key |-> key_vector, pattern |-> data_vector, out |-> <<>>,
             raised |-> FALSE]
  /\ UNCHANGED <<keys, radius, rleVars, loaderVars, mainVars, chunkVars, genVars>>

\* A read that takes what it reads out of the memory: the counters are reset.
LookupClearing(key_vector) ==
  /\ old' = data
  /\ data' = ZeroData(Len(keys), N)
  /\ ret' = [op |-> "lookup", key |-> key_vector, pattern |-> <<>>,
             out |-> lookup(keys, data, radius, key_vector), raised |-> FALSE]
  /\ UNCHANGED <<keys, radius, writes, rleVars, loaderVars, mainVars, chunkVars, genVars>>

Lookup(key_vector) ==
  /\ old' = data
  /\ ret' = IF LookupRaises(keys, data, radius, key_vector)
               THEN [op |-> "lookup", key |-> key_vector, pattern |-> <<>>, out |-> <<>>,
                     raised |-> TRUE]
               ELSE [op |-> "lookup", key |-> key_vector, pattern |-> <<>>,
                     out |-> lookup(keys, data, radius, key_vector), raised |-> FALSE]
  /\ UNCHANGED <<keys, data, radius, writes, rleVars, loaderVars, mainVars,
               chunkVars, genVars>>

Next ==
  \/ \E k \in BitVecs(N), v \in BitVecs(N) : Len(writes) < MaxWrites /\ Enter(k, v)
  \/ \E k \in BitVecs(N) : Lookup(k)

Spec == Init /\ [][Next]_vars

SpecCover == InitCover /\ [][Next]_vars

-----------------------------------------------------------------------------
(* Filling the counters: writes into a fresh memory, free at first and     *)
(* then the same write over and over, and the memory saved at any point.   *)

\* Every write so far was the write of key_vector and data_vector.
Repeats(key_vector, data_vector) ==
  /\ writes # <<>>
  /\ \A w \in DOMAIN writes :
       writes[w] = [key |-> key_vector, pattern |-> data_vector]

NextFill ==
  \/ \E k \in BitVecs(N), v \in BitVecs(N) :
       /\ bundle.status = "none"
       /\ \/ Len(writes) < MaxWrites
          \/ Len(writes) < MaxFill /\ Repeats(k, v)
       /\ Enter(k, v)
  \/ SaveLoader

SpecFill == Init /\ [][NextFill]_vars

-----------------------------------------------------------------------------
(* The memory called with keys of any length from N - 1 to N + 1.          *)

DimKeys == UNION {BitVecs(n) : n \in (N - 1)..(N + 1)}

NextDim ==
  \/ \E k \in DimKeys, v \in BitVecs(N) : Len(writes) < MaxDimWrites /\ Enter(k, v)
  \/ \E k \in DimKeys : Lookup(k)

SpecDim == Init /\ [][NextDim]_vars

-----------------------------------------------------------------------------
(* sparse_malicious_memory.py: the memory that is written and read with    *)
(* one vector.  keys holds self.addresses[0], data holds self.data[0] and  *)
(* radius holds self.radius, the float 0.451 * n, in thousandths.          *)

\* self.radius = 0.451 * n, in thousandths
SmmRadius(n) == 451 * n

\* addressVector + [0] * (len(self.addresses[0][i]) - len(addressVector))
smm_padded(addressVector, address) ==
  IF Len(address) > Len(addressVector)
    THEN addressVector \o Zeros(Len(address) - Len(addressVector))
    ELSE addressVector

\* hamming_distance(vector1, vector2): the loop runs over range(len(vector1)).
smm_hamming_distance(vector1, vector2) ==
  Cardinality({i \in 1..Len(vector1) : vector1[i] # vector2[i]})

\* hdist <= self.radius, r being the radius in thousandths
SmmInRadius(address, r, addressVector) ==
  1000 * smm_hamming_distance(address, smm_padded(addressVector, address)) <= r

\* The inner loop of enter: the test is on the bit of the address.
SmmEnterRow(row, address) ==
  [j \in 1..Len(row) |->
     IF j > Len(address) THEN row[j]
     ELSE IF address[j] = 1 THEN row[j] + 1 ELSE row[j] - 1]

\* SDM.enter(addressVector)
smm_enter(ks, d, r, addressVector) ==
  [i \in 1..Len(ks) |->
     IF SmmInRadius(ks[i], r, addressVector) THEN SmmEnterRow(d[i], ks[i]) ELSE d[i]]

\* The first loop of lookup, from address i on.
RECURSIVE SmmLookupFrom(_, _, _, _, _, _)
SmmLookupFrom(ks, d, r, addressVector, retrieved_data, i) ==
  IF i > Len(ks) THEN retrieved_data
  ELSE SmmLookupFrom(ks, d, r, addressVector,
                     IF SmmInRadius(ks[i], r, addressVector)
                       THEN AddRow(retrieved_data, d[i])
                       ELSE retrieved_data,
                     i + 1)

\* SDM.lookup(addressVector)
smm_lookup(ks, d, r, addressVector) ==
  Threshold(SmmLookupFrom(ks, d, r, addressVector, Zeros(Len(ks[1])), 1))

\* SDM(p, n): addresses drawn from the unseeded generator, zeroed counters.
InitSmm ==
  /\ keys \in FullAddressSpaces
  /\ data = ZeroData(Len(keys), N)
  /\ radius = SmmRadius(N)
  /\ old = data
  /\ writes = <<>>
  /\ ret = NoCall
  /\ RleIdle
  /\ LoaderIdle
  /\ MainIdle
  /\ ChunkIdle
  /\ GenIdle

SmmEnter(addressVector) ==
  /\ old' = data
  /\ data' = smm_enter(keys, data, radius, addressVector)
  /\ writes' = Append(writes, [key |-> addressVector, pattern |-> addressVector])
  /\ ret' = [op |-> "enter", key |-> addressVector, pattern |-> addressVector,
             out |-> <<>>, raised |-> FALSE]
  /\ UNCHANGED <<keys, radius, rleVars, loaderVars, mainVars, chunkVars, genVars>>

SmmLookup(addressVector) ==
  /\ old' = data
  /\ ret' = [op |-> "lookup", key |-> addressVector, pattern |-> <<>>,
             out |-> smm_lookup(keys, data, radius, addressVector), raised |-> FALSE]
  /\ UNCHANGED <<keys, data, radius, writes, rleVars, loaderVars, mainVars,
               chunkVars, genVars>>

\* The chunks main cuts: full ones and a last one that may be shorter.
SmmChunks == BitVecs(N) \cup BitVecs(N - 1)

NextSmm ==
  \/ \E v \in SmmChunks : Len(writes) < MaxWrites /\ SmmEnter(v)
  \/ \E v \in SmmChunks : SmmLookup(v)

SpecSmm == InitSmm /\ [][NextSmm]_vars

-----------------------------------------------------------------------------
(* malSDM.py: the memory of checksum dictionaries.  keys holds             *)
(* self.addresses, data holds self.data, one dictionary per address, and   *)
(* radius holds self.radius.  A dictionary is the sequence of its items in *)
(* insertion order, a block the sequence of the codes of its characters.   *)

\* The length of the addresses and of the blocks.
DictBlockSize == 4

ChecksumMod == 100000

\* int(0.3 * block_size)
DictRadiusOf(block_size) == (3 * block_size) \div 10

RECURSIVE SumOrd(_)
SumOrd(block) == IF block = <<>> THEN 0 ELSE Head(block) + SumOrd(Tail(block))

\* sum(ord(char) for char in block) % 100000
calculate_checksum(block) == SumOrd(block) % ChecksumMod

\* str(checksum): the decimal digits of a natural number.
RECURSIVE PyStr(_)
PyStr(n) == IF n < 10 THEN <<n>> ELSE PyStr(n \div 10) \o <<n % 10>>

\* int(checksum): the number a sequence of decimal digits stands for.
RECURSIVE PyInt(_)
PyInt(s) ==
  IF s = <<>> THEN 0
  ELSE 10 * PyInt(SubSeq(s, 1, Len(s) - 1)) + s[Len(s)]

\* dct[key] = value: an item of that key keeps its place and gets the value,
\* a new key goes to the end.
DictSet(dct, key, value) ==
  IF \E k \in DOMAIN dct : dct[k].checksum = key
    THEN [k \in DOMAIN dct |->
            IF dct[k].checksum = key THEN [checksum |-> key, block |-> value] ELSE dct[k]]
    ELSE Append(dct, [checksum |-> key, block |-> value])

\* SDM.enter(addressVector, data_block)
dict_enter(addresses, d, r, addressVector, data_block) ==
  LET checksum == calculate_checksum(data_block)
  IN [i \in 1..Len(addresses) |->
        IF hamming_distance(addressVector, addresses[i]) <= r
          THEN DictSet(d[i], PyStr(checksum), data_block)
          ELSE d[i]]

\* block_counts[block] = block_counts.get(block, 0) + 1, block_counts being
\* the sequence of its items in insertion order.
CountBlock(block_counts, block) ==
  IF \E k \in DOMAIN block_counts : block_counts[k].block = block
    THEN [k \in DOMAIN block_counts |->
            IF block_counts[k].block = block
              THEN [block |-> block, count |-> block_counts[k].count + 1]
              ELSE block_counts[k]]
    ELSE Append(block_counts, [block |-> block, count |-> 1])

\* for checksum, block in self.data[i].items(): count the block if its
\* checksum is the one it is stored under.
RECURSIVE CountItems(_, _, _)
CountItems(block_counts, dct, k) ==
  IF k > Len(dct) THEN block_counts
  ELSE CountItems(IF PyInt(dct[k].checksum) = calculate_checksum(dct[k].block)
                    THEN CountBlock(block_counts, dct[k].block)
                    ELSE block_counts,
                  dct, k + 1)

\* for i, stored_addr in enumerate(self.addresses)
RECURSIVE RetrieveFrom(_, _, _, _, _, _)
RetrieveFrom(addresses, d, r, addressVector, block_counts, i) ==
  IF i > Len(addresses) THEN block_counts
  ELSE RetrieveFrom(addresses, d, r, addressVector,
                    IF hamming_distance(addressVector, addresses[i]) <= r
                      THEN CountItems(block_counts, d[i], 1)
                      ELSE block_counts,
                    i + 1)

\* A choice that takes the first block counted, whatever its count.
FirstBlock(block_counts) == block_counts[1].block

\* max(block_counts, key=block_counts.get): the first of the blocks with
\* the highest count, in insertion order.
MaxBlock(block_counts) ==
  LET k == CHOOSE x \in DOMAIN block_counts :
             /\ \A y \in DOMAIN block_counts : block_counts[y].count <= block_counts[x].count
             /\ \A y \in 1..(x - 1) : block_counts[y].count < block_counts[x].count
  IN block_counts[k].block

\* SDM.retrieve(addressVector); the empty sequence is the empty string.
retrieve(addresses, d, r, addressVector) ==
  LET block_counts == RetrieveFrom(addresses, d, r, addressVector, <<>>, 1)
  IN IF block_counts = <<>> THEN <<>> ELSE MaxBlock(block_counts)

\* The addresses are draws of generators seeded with the index: any p
\* vectors.  enter and retrieve depend on the addresses through Hamming
\* distances to the keys only, so the first one is drawn as the zero vector.
DictAddressSpaces ==
  UNION {{ks \in [1..p -> BitVecs(DictBlockSize)] : ks[1] = Zeros(DictBlockSize)} :
           p \in 1..MaxP}

\* Blocks of block_size characters chr(byte + 32): two with the same sum of
\* character codes and a third one.
DictBlocks == {<<33, 34, 33, 33>>, <<34, 33, 33, 33>>, <<35, 35, 35, 35>>}

\* SDM(p, block_size)
InitDict ==
  /\ keys \in DictAddressSpaces
  /\ data = [i \in 1..Len(keys) |-> <<>>]
  /\ radius = DictRadiusOf(DictBlockSize)
  /\ old = data
  /\ writes = <<>>
  /\ ret = NoCall
  /\ RleIdle
  /\ LoaderIdle
  /\ MainIdle
  /\ ChunkIdle
  /\ GenIdle

DictEnter(addressVector, data_block) ==
  /\ old' = data
  /\ data' = dict_enter(keys, data, radius, addressVector, data_block)
  /\ ret' = [op |-> "enter", key |-> addressVector, pattern |-> data_block,
             out |-> <<>>, raised |-> FALSE]
  /\ UNCHANGED <<keys, radius, writes, rleVars, loaderVars, mainVars, chunkVars, genVars>>

Retrieve(addressVector) ==
  /\ old' = data
  /\ ret' = [op |-> "retrieve", key |-> addressVector, pattern |-> <<>>,
             out |-> retrieve(keys, data, radius, addressVector), raised |-> FALSE]
  /\ UNCHANGED <<keys, data, radius, writes, rleVars, loaderVars, mainVars,
               chunkVars, genVars>>

NextDict ==
  \/ \E v \in BitVecs(DictBlockSize), b \in DictBlocks : DictEnter(v, b)
  \/ \E v \in BitVecs(DictBlockSize) : Retrieve(v)

SpecDict == InitDict /\ [][NextDict]_vars

-----------------------------------------------------------------------------
(* What the claims about the memory engine speak of, stated on the state   *)
(* and not through the operators above.                                    *)

\* The Hamming distance of two vectors of N bits.
Dist(a, b) == Cardinality({j \in 1..N : a[j] # b[j]})

\* The hard addresses within radius of key k.
Hood(k) == {i \in DOMAIN keys : Dist(keys[i], k) <= radius}

\* The sum of column j of matrix d over the rows in S.
RECURSIVE ColumnSum(_, _, _)
ColumnSum(d, S, j) ==
  IF S = {} THEN 0
  ELSE LET i == CHOOSE x \in S : TRUE
       IN d[i][j] + ColumnSum(d, S \ {i}, j)

Mixed(v) == (\E j \in DOMAIN v : v[j] = 1) /\ (\E j \in DOMAIN v : v[j] = 0)

-----------------------------------------------------------------------------
(* C1.  enter(key, pattern) changes every counter of every address within  *)
(* radius of key by exactly one: counter[i][j] becomes its old value + 1   *)
(* when pattern[j] = 1 and its old value - 1 otherwise.                    *)
C1_EnterUpdatesNeighbourhood ==
  ret.op = "enter" =>
    /\ DOMAIN data = DOMAIN keys
    /\ \A i \in Hood(ret.key) :
         /\ DOMAIN data[i] = 1..N
         /\ \A j \in 1..N :
              data[i][j] = IF ret.pattern[j] = 1 THEN old[i][j] + 1 ELSE old[i][j] - 1

\* A second write, of a pattern with both bit values, that hits a row
\* whose counters the first write had already moved.
C1_Witness ==
  /\ ret.op = "enter"
  /\ Len(writes) = 2
  /\ Mixed(ret.pattern)
  /\ \E i \in Hood(ret.key) : old[i] # Zeros(N)

(* C2.  lookup(key) returns n bits; bit j is 1 when the counters of        *)
(* column j, summed over the addresses within radius of key, are strictly  *)
(* positive, and 0 otherwise: a zero sum (a tie or an empty neighbourhood) *)
(* gives 0.                                                                *)
C2_LookupThresholdsColumnSums ==
  ret.op = "lookup" =>
    /\ DOMAIN ret.out = 1..N
    /\ \A j \in 1..N :
         ret.out[j] = IF ColumnSum(data, Hood(ret.key), j) > 0 THEN 1 ELSE 0

\* A read whose neighbourhood holds opposite counters in one column (a tie,
\* read as 0) and a positive sum in another (read as 1).
C2_Witness ==
  /\ ret.op = "lookup"
  /\ \E j \in 1..N :
       /\ ColumnSum(data, Hood(ret.key), j) = 0
       /\ \E i \in Hood(ret.key) : data[i][j] # 0
       /\ ret.out[j] = 0
  /\ \E j \in 1..N : ret.out[j] = 1

(* C3.  Exact single-write recall: in a memory of one address whose radius *)
(* covers every distance and whose counters are all zero, a write of any   *)
(* pattern at any key followed by a read with the same key returns that    *)
(* pattern.                                                                *)
C3_SingleWriteRecall ==
  ( /\ Len(keys) = 1
    /\ radius >= N
    /\ Len(writes) = 1
    /\ ret.op = "lookup"
    /\ ret.key = writes[1].key )
  => ret.out = writes[1].pattern

\* The read of a pattern with both bit values, written at the key farthest
\* from the address.
C3_Witness ==
  /\ Len(keys) = 1
  /\ radius >= N
  /\ Len(writes) = 1
  /\ ret.op = "lookup"
  /\ ret.key = writes[1].key
  /\ Dist(keys[1], ret.key) = N
  /\ Mixed(writes[1].pattern)
  /\ ret.out = writes[1].pattern

(* C4, as claimed.  After one write of P at K into zeroed memory, a read   *)
(* at any K' within radius of K returns P.                                 *)
C4_NoiseToleranceAsClaimed ==
  ( /\ Len(writes) = 1
    /\ ret.op = "lookup"
    /\ Dist(writes[1].key, ret.key) <= radius )
  => ret.out = writes[1].pattern

(* C4, amended.  After one write of P at K into zeroed memory, a read at   *)
(* a key K' within radius of K returns P when some address is within       *)
(* radius of both K and K', and the all-zero vector when none is.          *)
C4_NoiseToleranceSharedAddress ==
  ( /\ Len(writes) = 1
    /\ ret.op = "lookup"
    /\ Dist(writes[1].key, ret.key) <= radius )
  => ret.out = IF Hood(writes[1].key) \cap Hood(ret.key) # {}
                 THEN writes[1].pattern
                 ELSE Zeros(N)

\* A read at another key than the written one, through a shared address.
C4_Witness ==
  /\ Len(writes) = 1
  /\ ret.op = "lookup"
  /\ ret.key # writes[1].key
  /\ Dist(writes[1].key, ret.key) <= radius
  /\ Hood(writes[1].key) \cap Hood(ret.key) # {}
  /\ Mixed(writes[1].pattern)
  /\ ret.out = writes[1].pattern

\* The two writes of C5: distinct patterns at keys more than 2 * radius apart.
Separated ==
  /\ Len(writes) = 2
  /\ Dist(writes[1].key, writes[2].key) > 2 * radius
  /\ writes[1].pattern # writes[2].pattern

(* C5, as claimed.  For keys K1, K2 more than 2 * radius apart no address  *)
(* is within radius of both, and after writing P1 at K1 and a distinct P2  *)
(* at K2 into zeroed memory a read of K1 returns P1 and a read of K2       *)
(* returns P2.                                                             *)
C5_OrthogonalityAsClaimed ==
  Separated =>
    /\ Hood(writes[1].key) \cap Hood(writes[2].key) = {}
    /\ \A w \in 1..2 :
         (ret.op = "lookup" /\ ret.key = writes[w].key) => ret.out = writes[w].pattern

(* C5, amended.  For keys K1, K2 more than 2 * radius apart no address is  *)
(* within radius of both, and after writing P1 at K1 and a distinct P2 at  *)
(* K2 into zeroed memory a read of either key returns the pattern written  *)
(* at it when some address is within radius of that key, and the all-zero  *)
(* vector when none is.                                                    *)
C5_OrthogonalityNonEmptyHood ==
  Separated =>
    /\ Hood(writes[1].key) \cap Hood(writes[2].key) = {}
    /\ \A w \in 1..2 :
         (ret.op = "lookup" /\ ret.key = writes[w].key) =>
            ret.out = IF Hood(writes[w].key) # {} THEN writes[w].pattern ELSE Zeros(N)

\* Both keys have an address within radius, both patterns are non-zero, and
\* the first key is read back after the second write.
C5_Witness ==
  /\ Separated
  /\ Hood(writes[1].key) # {}
  /\ Hood(writes[2].key) # {}
  /\ Mixed(writes[1].pattern)
  /\ Mixed(writes[2].pattern)
  /\ ret.op = "lookup"
  /\ ret.key = writes[1].key
  /\ ret.out = writes[1].pattern

-----------------------------------------------------------------------------
(* What the claims about the run-length codec speak of.                    *)

\* The positions where a maximal run of s starts.
RunStarts(s) == {i \in 1..Len(s) : i = 1 \/ s[i] # s[i - 1]}

\* The length of the maximal run of s that starts at i.
RunLength(s, i) ==
  LET later == {k \in RunStarts(s) : k > i}
      next == IF later = {} THEN Len(s) + 1
              ELSE CHOOSE k \in later : \A m \in later : k <= m
  IN next - i

\* The pairs the claim gives a run of L values v: L \div 255 pairs <<255, v>>,
\* then <<L % 255, v>> when L % 255 > 0.
SplitRun(L, v) ==
  LET full == L \div 255
      rest == L % 255
      pairs == full + (IF rest > 0 THEN 1 ELSE 0)
  IN [k \in 1..(2 * pairs) |->
        IF k % 2 = 0 THEN v
        ELSE IF (k + 1) \div 2 <= full THEN 255 ELSE rest]

\* The pairs of the maximal runs of s that start at the positions S, in order.
RECURSIVE RunPairs(_, _)
RunPairs(s, S) ==
  IF S = {} THEN <<>>
  ELSE LET i == CHOOSE k \in S : \A m \in S : k <= m
       IN SplitRun(RunLength(s, i), s[i]) \o RunPairs(s, S \ {i})

LongestRun(s) ==
  IF s = <<>> THEN 0
  ELSE LET lens == {RunLength(s, i) : i \in RunStarts(s)}
       IN CHOOSE L \in lens : \A m \in lens : m <= L

(* C7.  RLE round trip: decoding the encoding of a bit sequence succeeds   *)
(* and returns the sequence, for the empty sequence and for sequences with *)
(* runs longer than 255 as for the others.                                 *)
C7_RleRoundTrip ==
  stage = "roundtrip" => (~dec.raised /\ dec.value = bits)

\* A round trip of a sequence with a run longer than 255, split by the
\* encoder, and a second run.
C7_Witness ==
  /\ stage = "roundtrip"
  /\ LongestRun(bits) > 255
  /\ Cardinality(RunStarts(bits)) = 2
  /\ Len(flat) > 4
  /\ dec.value = bits

(* C8.  RLE run splitting: the encoder's output is, run by run, the pairs  *)
(* <<255, v>> repeated L \div 255 times followed by <<L % 255, v>> when    *)
(* L % 255 > 0, for each maximal run of L values v (a single pair <<L, v>> *)
(* when L <= 255); every count is in 1..255 and every element is a byte.   *)
C8_RleRunSplitting ==
  stage \in {"encoded", "roundtrip"} =>
    /\ flat = RunPairs(bits, RunStarts(bits))
    /\ Len(flat) % 2 = 0
    /\ \A k \in 1..Len(flat) :
         /\ flat[k] \in 0..255
         /\ k % 2 = 1 => flat[k] \in 1..255

\* The claim's example of a split run: 300 equal bits.
C8_Witness ==
  /\ stage = "encoded"
  /\ bits = Repeat(1, 300)
  /\ flat = <<255, 1, 45, 1>>

\* The bytes at the value positions of a flat sequence (Python's odd indices).
ValuePositions(f) == {k \in 1..Len(f) : k % 2 = 0}

RECURSIVE SumCounts(_, _)
SumCounts(f, k) == IF k > Len(f) THEN 0 ELSE f[k] + SumCounts(f, k + 2)

(* C9.  The decoder raises, and returns nothing, exactly when the flat     *)
(* sequence has odd length or holds a value (odd Python index) outside     *)
(* {0, 1}; on every other input it returns the expansion of the pairs.     *)
C9_DecodeRejectsMalformed ==
  stage = "decoded" =>
    LET malformed == \/ Len(flat) % 2 # 0
                     \/ \E k \in ValuePositions(flat) : flat[k] \notin {0, 1}
    IN /\ dec.raised <=> malformed
       /\ dec.raised => dec.value = <<>>
       /\ ~dec.raised =>
            /\ Len(dec.value) = SumCounts(flat, 1)
            /\ \A k \in ValuePositions(flat) :
                 flat[k - 1] > 0 => dec.value[SumCounts(flat, 1) - SumCounts(flat, k - 1) + 1] = flat[k]

\* An even-length input whose first pair is well formed and whose second
\* pair holds the value 2: the decoder raises after having expanded a pair.
C9_Witness ==
  /\ stage = "decoded"
  /\ Len(flat) = 4
  /\ flat[1] > 0
  /\ flat[2] \in {0, 1}
  /\ flat[4] = 2
  /\ dec.raised
  /\ dec.value = <<>>

-----------------------------------------------------------------------------
(* C10.  Counter packing round trip: a counter matrix whose entries all    *)
(* lie in -128..127, written into the loader script (v as the byte v when  *)
(* v >= 0 and v + 256 when v < 0) and read back by the script (b - 256     *)
(* when b > 127, b otherwise, in rows of n), comes back as the same        *)
(* matrix, rows and columns in their order.                                *)
C10_CounterPackingRoundTrip ==
  ( /\ loaded.status # "none"
    /\ \A i \in DOMAIN data : \A j \in DOMAIN data[i] : data[i][j] \in -128..127 )
  => (loaded.status = "loaded" /\ loaded.data = data)

\* A matrix of two rows holding both ends of the range, in different rows
\* and columns, loaded back.
C10_Witness ==
  /\ loaded.status = "loaded"
  /\ Len(data) = 2
  /\ \E j \in 1..N : data[1][j] = -128
  /\ \E j \in 1..N : data[2][j] = 127 /\ data[1][j] # -128
  /\ loaded.data = data

-----------------------------------------------------------------------------
(* What the claim about main and the loader script speaks of.              *)

\* The bits of a byte sequence, the most significant bit of each byte first.
PayloadBits(content) ==
  [k \in 1..(8 * Len(content)) |->
     (content[(k + 7) \div 8] \div Pow(2, 7 - ((k - 1) % 8))) % 2]

\* The file of the list that files_info[name] was recorded from: the last
\* readable one of that name.
SourceOf(name) ==
  LET at == {k \in 1..Len(file_paths) : file_paths[k].found /\ file_paths[k].name = name}
  IN file_paths[CHOOSE k \in at : \A m \in at : m <= k]

\* Every chunk was written at a key with an address within radius, and no
\* address is within radius of the keys of two chunks.
ChunksApart ==
  /\ \A a \in 1..Len(writes) : Hood(writes[a].key) # {}
  /\ \A a, b \in 1..Len(writes) :
       a # b => Hood(writes[a].key) \cap Hood(writes[b].key) = {}

(* C6.  End-to-end fidelity: a payload whose bit length is no multiple of  *)
(* the chunk size, ingested by main (chunks, one key per chunk, each chunk *)
(* written at its key), saved into the loader script and reconstructed by  *)
(* the script (each key decoded and read, the reads concatenated and cut   *)
(* to the recorded length), comes back bit for bit, provided every chunk   *)
(* key has a non-empty neighbourhood that meets no other chunk key's.      *)
C6_EndToEndFidelity ==
  ( /\ output.status # "none"
    /\ (8 * Len(SourceOf(output.name).content)) % N # 0
    /\ ChunksApart )
  => /\ output.status = "written"
     /\ output.binary_data = PayloadBits(SourceOf(output.name).content)
     /\ output.bytes = SourceOf(output.name).content

\* The byte 10110001 in three chunks of three bits, the last one padded,
\* written at three keys of pairwise disjoint neighbourhoods and rebuilt.
C6_Witness ==
  /\ output.status = "written"
  /\ SourceOf(output.name).content = <<177>>
  /\ Len(writes) = 3
  /\ writes[3].pattern = <<0, 1, 0>>
  /\ ChunksApart
  /\ output.bytes = <<177>>

-----------------------------------------------------------------------------
(* What the claims about the size of the counters speak of.                *)

OutOfRange(d) == \E i \in DOMAIN d : \E j \in DOMAIN d[i] : d[i][j] < -128 \/ d[i][j] > 127

Abs(x) == IF x < 0 THEN -x ELSE x

\* The writes made so far whose key was within radius of address i.
Overlapping(i) == {w \in DOMAIN writes : i \in Hood(writes[w].key)}

(* C11.  Counter overflow detection: writing the loader script of a memory *)
(* one of whose counters is below -128 or above 127 fails with an error:   *)
(* no counter is clamped or wrapped into a byte, no data is written, and   *)
(* the counter matrix is as it was.                                        *)
C11_CounterOverflowDetected ==
  [][(bundle.status = "none" /\ bundle'.status # "none" /\ OutOfRange(data))
       => /\ bundle'.status = "raised"
          /\ bundle'.data = <<>>
          /\ data' = data]_vars

\* The claim's example: the same key and pattern written 128 times, a
\* counter at 128, and the save refused.
C11_Witness ==
  /\ Len(writes) = 128
  /\ \E i \in DOMAIN data : \E j \in 1..N : data[i][j] = 128
  /\ ~(\E i \in DOMAIN data : \E j \in 1..N : data[i][j] < -128)
  /\ bundle.status = "raised"

-----------------------------------------------------------------------------
(* C12.  Chunk split: chunk_binary_data returns ceil(len / chunk_size)     *)
(* chunks of exactly chunk_size bits each; bit j of chunk k is bit         *)
(* (k - 1) * chunk_size + j of the payload where the payload has one, and  *)
(* 0 after the payload's end: a short last window is padded on the right.  *)
C12_ChunkSplit ==
  pieces.called =>
    /\ Len(pieces.chunks) = (Len(payload) + csize - 1) \div csize
    /\ \A k \in 1..Len(pieces.chunks) :
         /\ DOMAIN pieces.chunks[k] = 1..csize
         /\ \A j \in 1..csize :
              pieces.chunks[k][j] = IF (k - 1) * csize + j <= Len(payload)
                                      THEN payload[(k - 1) * csize + j]
                                      ELSE 0

\* The claim's example: 20 bits in chunks of 8 give 3 chunks; the third
\* holds the last 4 bits, not all zero, and then 4 zero bits.
C12_Witness ==
  /\ pieces.called
  /\ Len(payload) = 20
  /\ csize = 8
  /\ Len(pieces.chunks) = 3
  /\ SubSeq(pieces.chunks[3], 1, 4) = SubSeq(payload, 17, 20)
  /\ SubSeq(pieces.chunks[3], 1, 4) # <<0, 0, 0, 0>>
  /\ SubSeq(pieces.chunks[3], 5, 8) = <<0, 0, 0, 0>>

(* C13.  Split/join round trip: the chunks of a payload, concatenated in   *)
(* order and cut to the payload's length, are the payload: only the        *)
(* padding is dropped.                                                     *)
C13_SplitJoinRoundTrip ==
  (joined.status # "none" /\ joined.original_length = Len(payload))
    => (joined.status = "written" /\ joined.binary_data = payload)

\* 20 bits that went through 3 chunks of 8 and lost their 4 bits of padding.
C13_Witness ==
  /\ joined.status = "written"
  /\ joined.original_length = 20
  /\ Len(payload) = 20
  /\ Len(Flatten(pieces.chunks)) = 24
  /\ joined.binary_data = payload
  /\ payload # Zeros(20)

(* C14, as claimed.  Join fails with a length-mismatch error, and produces *)
(* no output, whenever the recorded original length exceeds the total      *)
(* length of the chunks read back.                                         *)
C14_JoinLengthMismatch ==
  (joined.status # "none" /\ joined.original_length > Len(Flatten(pieces.chunks)))
    => (joined.status = "raised" /\ joined.binary_data = <<>>)

-----------------------------------------------------------------------------
(* C15, as claimed.  enter and lookup called with a key whose length is    *)
(* not n fail with an error, change no counter and return no pattern.      *)
C15_DimensionMismatch ==
  (ret.op # "none" /\ Len(ret.key) # N)
    => (ret.raised /\ data = old /\ ret.out = <<>>)

-----------------------------------------------------------------------------
\* What a read of key k returns, from the counters as they are.
Recall(k) == [j \in 1..N |-> IF ColumnSum(data, Hood(k), j) > 0 THEN 1 ELSE 0]

(* C16.  read is pure: a lookup leaves the counter matrix, the addresses   *)
(* and the radius as they were and returns a function of them and of the   *)
(* key, so that reads between two writes return the same result for the    *)
(* same key, in any number and order; only enter changes the counters.     *)
C16_LookupIsPure ==
  [][ /\ ret'.op = "lookup" =>
           /\ data' = data
           /\ keys' = keys
           /\ radius' = radius
           /\ ret'.out = Recall(ret'.key)
      /\ (ret.op = "lookup" /\ ret'.op = "lookup" /\ ret'.key = ret.key) =>
           ret'.out = ret.out
      /\ data' # data => ret'.op = "enter" ]_vars

\* A read of a memory two writes have filled, that left the counters as
\* they were and returned a pattern with both bit values.
C16_Witness ==
  /\ ret.op = "lookup"
  /\ Len(writes) = 2
  /\ old = data
  /\ data # ZeroData(Len(keys), N)
  /\ Mixed(ret.out)

(* C17.  write changes only the counter rows of the addresses within       *)
(* radius of the key: every row farther away, the addresses and the radius *)
(* stay as they were, and when no address is within radius the write ends  *)
(* without an error and with the whole matrix unchanged.                   *)
C17_EnterFrame ==
  [][ (ret'.op = "enter" /\ Len(writes') = Len(writes) + 1) =>
        /\ keys' = keys
        /\ radius' = radius
        /\ ~ret'.raised
        /\ \A i \in DOMAIN keys :
             Dist(keys[i], ret'.key) > radius => data'[i] = data[i]
        /\ Hood(ret'.key) = {} => data' = data ]_vars

\* A second write, at a key with no address within radius, that left the
\* counters of the first write as they were.
C17_Witness ==
  /\ ret.op = "enter"
  /\ Len(writes) = 2
  /\ Hood(ret.key) = {}
  /\ Hood(writes[1].key) # {}
  /\ data = old
  /\ data # ZeroData(Len(keys), N)

-----------------------------------------------------------------------------
\* The names of the readable files among the first k of the list.
ReadableNames(k) == {file_paths[m].name : m \in {x \in 1..k : file_paths[x].found}}

(* C18.  Ingestion continues past a failing file: the pass of main's loop  *)
(* over a file that cannot be read adds no entry to files_info and changes *)
(* no counter, the pass over a readable file records it under its name     *)
(* with its bit length and one key per chunk, and the files recorded are   *)
(* at every point the readable ones among the files the loop has been      *)
(* through, those after a failing file included.                           *)
C18_IngestionSkipsFailingFile ==
  [][ /\ DOMAIN files_info' = ReadableNames(done')
      /\ done' # done =>
           /\ done' = done + 1
           /\ LET file == file_paths[done'] IN
                /\ ~file.found =>
                     /\ files_info' = files_info
                     /\ data' = data
                     /\ writes' = writes
                /\ file.found =>
                     /\ files_info'[file.name].original_length = 8 * Len(file.content)
                     /\ Len(files_info'[file.name].chunk_keys)
                          = (8 * Len(file.content) + N - 1) \div N
                     /\ Len(writes') = Len(writes) + (8 * Len(file.content) + N - 1) \div N
    ]_vars

\* A list whose first file cannot be read and whose second file was then
\* stored and recorded, alone.
C18_Witness ==
  /\ Len(file_paths) = 2
  /\ done = 2
  /\ ~file_paths[1].found
  /\ file_paths[2].found
  /\ file_paths[2].content = <<177>>
  /\ DOMAIN files_info = {file_paths[2].name}
  /\ Len(writes) = 3
  /\ data # ZeroData(MainP, N)

-----------------------------------------------------------------------------
(* C19.  Address generation is deterministic: a call of SDM.__init__ or    *)
(* generate_key_vectors returns the vectors the first call with the same   *)
(* seed, count and length returned, and address i of malsdm's SDM is the   *)
(* address the first memory with that index and vector length got,         *)
(* whatever p is and whatever was drawn or generated in between.           *)
C19_GenerationDeterministic ==
  /\ gen.op \in {"SDM.__init__", "generate_key_vectors"} =>
       gen.out = first[<<"seeded", gen.seed, gen.count, gen.length>>]
  /\ gen.op = "addresses" =>
       \A i \in 1..gen.count : gen.out[i] = first[<<"index", i - 1, gen.length>>]

\* A third call, after calls with other arguments, made when the module
\* stood in the middle of a stream, that returned two different vectors of
\* two bits.
C19_Witness ==
  /\ gen.calls = 3
  /\ gen.op = "generate_key_vectors"
  /\ gen.count = 2
  /\ gen.length = 2
  /\ gen.before \in 1..3
  /\ Cardinality(DOMAIN first) >= 2
  /\ gen.out[1] # gen.out[2]
  /\ gen.out = first[<<"seeded", gen.seed, gen.count, gen.length>>]

-----------------------------------------------------------------------------
(* C20.  Counter magnitude bound: after any writes into a fresh memory the *)
(* magnitude of every counter of row i is at most the number of writes     *)
(* whose key was within radius of address i, which is at most the number   *)
(* of writes; so the loader script of a memory written at most 127 times   *)
(* is written without a counter overflow.                                  *)
C20_CounterMagnitudeBound ==
  /\ \A i \in DOMAIN data :
       LET overlapping == Cardinality(Overlapping(i))
       IN /\ \A j \in 1..N : Abs(data[i][j]) <= overlapping
          /\ overlapping <= Len(writes)
  /\ (bundle.status # "none" /\ Len(writes) <= 127) => bundle.status = "written"

\* A memory saved after 127 writes of one pattern at one key, with counters
\* at 127 and at -127.
C20_Witness ==
  /\ Len(writes) = 127
  /\ \E i \in DOMAIN data : \E j, m \in 1..N : data[i][j] = 127 /\ data[i][m] = -127
  /\ bundle.status = "written"

-----------------------------------------------------------------------------
(* C22.  Address table round trip: the loader script holds the p addresses *)
(* as the concatenation of each address's own run-length pairs, and the    *)
(* script's load_keys (decode the whole byte sequence, split the bits into *)
(* consecutive groups of n) returns the p addresses, in their order, also  *)
(* when the last run of an address and the first run of the next one hold  *)
(* the same value.                                                         *)
C22_AddressTableRoundTrip ==
  /\ bundle.status = "written" =>
       b64decode(bundle.keys) = KeysFlat(keys)
  /\ loaded.status # "none" =>
       /\ loaded.status = "loaded"
       /\ loaded.keys = keys

\* Two addresses, the first ending with the value the second starts with
\* and both holding two runs, written as four pairs and loaded back.
C22_Witness ==
  /\ loaded.status = "loaded"
  /\ Len(keys) = 2
  /\ keys[1][N] = keys[2][1]
  /\ Cardinality(RunStarts(keys[1])) = 2
  /\ Cardinality(RunStarts(keys[2])) = 2
  /\ keys[1] # keys[2]
  /\ Len(b64decode(bundle.keys)) = 8
  /\ loaded.keys = keys

-----------------------------------------------------------------------------
\* The counters after the writes ws, made one after the other on matrix d.
RECURSIVE ApplyWrites(_, _)
ApplyWrites(d, ws) ==
  IF ws = <<>> THEN d
  ELSE ApplyWrites(enter(keys, d, radius, Head(ws).key, Head(ws).pattern), Tail(ws))

\* The writes made so far, in the order f.
Reordered(f) == [k \in DOMAIN writes |-> writes[f[k]]]

(* C24.  Writes commute: the counters after the writes made into a fresh   *)
(* memory are the counters any other order of the same writes gives, and   *)
(* counter[i][j] is the number of writes within radius of address i whose  *)
(* pattern has a 1 at j minus the number of those whose pattern has not:   *)
(* no write overwrites the effect of another.                              *)
C24_WritesCommute ==
  /\ \A f \in Permutations(DOMAIN writes) :
       ApplyWrites(ZeroData(Len(keys), N), Reordered(f)) = data
  /\ \A i \in DOMAIN data : \A j \in 1..N :
       data[i][j] = Cardinality({w \in Overlapping(i) : writes[w].pattern[j] = 1})
                    - Cardinality({w \in Overlapping(i) : writes[w].pattern[j] # 1})

\* Two writes of different patterns at different keys that share an
\* address: where the patterns agree its counter stands at 2 or -2, where
\* they differ at 0, and the other order gives the same matrix.
C24_Witness ==
  /\ Len(writes) = 2
  /\ writes[1].key # writes[2].key
  /\ \E i \in Hood(writes[1].key) \cap Hood(writes[2].key) : \E j, m \in 1..N :
       /\ writes[1].pattern[j] # writes[2].pattern[j]
       /\ data[i][j] = 0
       /\ writes[1].pattern[m] = writes[2].pattern[m]
       /\ Abs(data[i][m]) = 2
  /\ \E i \in DOMAIN keys : i \in Hood(writes[1].key) /\ i \notin Hood(writes[2].key)
  /\ ApplyWrites(ZeroData(Len(keys), N), <<writes[2], writes[1]>>) = data

-----------------------------------------------------------------------------
(* C25.  Key aliasing in main: SDM.__init__ and every call of              *)
(* generate_key_vectors reseed the generator with the same seed and draw   *)
(* vectors of the same length, so the key of chunk k of every file main    *)
(* stores is address k of the memory (for k up to p): chunk k of any two   *)
(* files is written at the same key, and every such write is within radius *)
(* of an address, at distance 0.                                           *)
C25_KeyAliasing ==
  [][ (done' = done + 1 /\ file_paths[done'].found) =>
        /\ \A k \in 1..(Len(writes') - Len(writes)) :
             k <= Len(keys) =>
               /\ writes'[Len(writes) + k].key = keys[k]
               /\ files_info'[file_paths[done'].name].chunk_keys[k] = EncodeChunkKey(keys[k])
               /\ Dist(keys[k], writes'[Len(writes) + k].key) = 0
               /\ k \in Hood(writes'[Len(writes) + k].key)
        /\ \A a, b \in DOMAIN files_info' :
             \A k \in 1..Min(Len(files_info'[a].chunk_keys), Len(files_info'[b].chunk_keys)) :
               k <= Len(keys) => files_info'[a].chunk_keys[k] = files_info'[b].chunk_keys[k]
    ]_vars

\* Two files of different contents and names stored in one run: the three
\* chunks of each were written at the three addresses, which are not all
\* the same vector, and the second file's chunks went where the first's are.
C25_Witness ==
  /\ done = 2
  /\ Len(writes) = 6
  /\ file_paths[1].name # file_paths[2].name
  /\ file_paths[1].content # file_paths[2].content
  /\ \A k \in 1..3 : writes[k].key = keys[k] /\ writes[k + 3].key = keys[k]
  /\ \E k \in 1..3 : writes[k].pattern # writes[k + 3].pattern
  /\ keys[1] # keys[2]
  /\ keys[2] # keys[3]
  /\ Cardinality(DOMAIN files_info) = 2

-----------------------------------------------------------------------------
\* The addresses of sparse_malicious_memory's SDM within radius of vector v.
SmmHood(v) == {i \in DOMAIN keys : 1000 * Dist(keys[i], v) <= radius}

(* C23, as claimed.  In sparse_malicious_memory.py enter(v) stores v: the  *)
(* counter [i][j] of every address i within radius of v goes up by one     *)
(* when v[j] = 1 and down by one otherwise, so that after a single         *)
(* enter(v) into the zeroed memory, with an address within radius of v,    *)
(* lookup(v) returns v.                                                    *)
C23_AutoAssociativeRecall ==
  /\ (ret.op = "enter" /\ Len(ret.key) = N) =>
       \A i \in SmmHood(ret.key) : \A j \in 1..N :
         data[i][j] = old[i][j] + (IF ret.key[j] = 1 THEN 1 ELSE -1)
  /\ ( /\ ret.op = "lookup"
       /\ Len(writes) = 1
       /\ ret.key = writes[1].key
       /\ Len(ret.key) = N
       /\ SmmHood(ret.key) # {} )
     => ret.out = ret.key

-----------------------------------------------------------------------------
(* What the claim about malSDM.py's retrieve speaks of.                    *)

\* The addresses of the dictionary memory within radius of vector v.
DictHood(v) ==
  {i \in DOMAIN keys :
     Cardinality({j \in 1..DictBlockSize : keys[i][j] # v[j]}) <= radius}

\* Block b is held at address i under the checksum of its content.
HeldValid(i, b) ==
  \E k \in DOMAIN data[i] :
    /\ data[i][k].block = b
    /\ data[i][k].checksum = PyStr(SumOrd(b) % 100000)

\* The number of addresses within radius of v that hold b under its checksum.
ValidCount(v, b) == Cardinality({i \in DictHood(v) : HeldValid(i, b)})

\* The blocks some address within radius of v holds under their checksum.
Validated(v) ==
  {b \in UNION {{data[i][k].block : k \in DOMAIN data[i]} : i \in DictHood(v)} :
     ValidCount(v, b) > 0}

(* C21.  retrieve(key) of the checksum-dictionary memory returns a block   *)
(* held under the checksum of its content at an address within radius of   *)
(* key, and held so at no fewer such addresses than any other such block;  *)
(* it returns the empty string when no address within radius holds a block *)
(* under the checksum of its content.                                      *)
C21_RetrieveMajorityBlock ==
  ret.op = "retrieve" =>
    /\ Validated(ret.key) = {} => ret.out = <<>>
    /\ Validated(ret.key) # {} =>
         /\ ret.out \in Validated(ret.key)
         /\ \A b \in Validated(ret.key) : ValidCount(ret.key, b) <= ValidCount(ret.key, ret.out)

\* A key within radius of two addresses: the first holds, first, a block
\* the second does not hold, and both hold the block returned.
C21_Witness ==
  /\ ret.op = "retrieve"
  /\ DictHood(ret.key) = {1, 2}
  /\ Len(data[1]) = 2
  /\ data[1][1].block # ret.out
  /\ ValidCount(ret.key, data[1][1].block) = 1
  /\ ValidCount(ret.key, ret.out) = 2
  /\ Cardinality(Validated(ret.key)) = 2

====
